---- MODULE Spec2Model ----
(***************************************************************************)
(* Model of the Vuex mutex plugin (src/src/index.ts): per-namespace        *)
(* serialisation of dispatched actions, reentrancy tracking and two-phase  *)
(* deduplication (in-flight / quick-repeat).                               *)
(*                                                                         *)
(* One model step is one synchronous segment of the JavaScript program,    *)
(* i.e. the code that runs between two suspension points of the event      *)
(* loop.  Strings are modelled as sequences of tokens, so that parsing and *)
(* key building are computed and not assumed.                              *)
(***************************************************************************)
EXTENDS Integers, Sequences, FiniteSets, TLC

\* ------------------------------------------------------------------ bounds
\* calls of the wrapped dispatch in one behaviour
MaxCalls == 3
\* last value of the clock
ShortTime == 1
\* invocations of the plugin function on one store
MaxInstalls == 2
\* last value of the clock where the end of the quick-repeat window is observed
LongTime == 3

\* --------------------------------------------------------- maps (JS Map<K,V>)
EmptyMap == <<>>

Has(map, key) == key \in DOMAIN map

MapSet(map, key, value) == [k \in (DOMAIN map) \cup {key} |-> IF k = key THEN value ELSE map[k]]

MapDelete(map, key) == [k \in (DOMAIN map) \ {key} |-> map[k]]

\* map.get(key) ?? dflt
GetOr(map, key, dflt) == IF key \in DOMAIN map THEN map[key] ELSE dflt

\* ------------------------------------------------- strings as token sequences
EmptyString == <<>>

Slash == "/"

ROOT_KEY == <<"__root__">>

\* fullType.lastIndexOf('/'), 1-based; 0 when there is no slash (JS: -1)
LastIndexOf(str, tok) ==
  LET hits == {i \in 1..Len(str) : str[i] = tok}
  IN IF hits = {} THEN 0 ELSE CHOOSE i \in hits : \A j \in hits : j <= i

\* ------------------------------------------------------- dispatch arguments
\* A type argument is a plain string, an object carrying a string `type` and
\* further fields (`rest`), or anything else (number, null, object without a
\* string type).  A payload is undefined or a flat object of primitive fields,
\* kept as the sequence of its <<key, value>> pairs in insertion order.
Undefined == [defined |-> FALSE, obj |-> <<>>]

Obj(pairs) == [defined |-> TRUE, obj |-> pairs]

StringArg(str) == [kind |-> "string", type |-> str, rest |-> <<>>]

ObjectArg(str, pairs) == [kind |-> "object", type |-> str, rest |-> pairs]

OtherArg == [kind |-> "other", type |-> EmptyString, rest |-> <<>>]

\* ---------------------------------------------------------------- parseType
\* mutant of parseType: whatever is not a string is converted to one
parseType_Coerces(typeLike) ==
  LET fullType == IF typeLike.kind \in {"string", "object"} /\ typeLike.type # EmptyString
                    THEN typeLike.type ELSE <<"[object]">>
      slashIdx == LastIndexOf(fullType, Slash)
  IN IF slashIdx = 0
       THEN [fullType |-> fullType, namespace |-> EmptyString, action |-> fullType]
     ELSE [fullType |-> fullType,
           namespace |-> SubSeq(fullType, 1, slashIdx),
           action |-> SubSeq(fullType, slashIdx + 1, Len(fullType))]

parseType(typeLike) ==
  LET fullType == IF typeLike.kind \in {"string", "object"} THEN typeLike.type ELSE EmptyString
      slashIdx == LastIndexOf(fullType, Slash)
  IN IF fullType = EmptyString
       THEN [fullType |-> EmptyString, namespace |-> EmptyString, action |-> EmptyString]
     ELSE IF slashIdx = 0
       THEN [fullType |-> fullType, namespace |-> EmptyString, action |-> fullType]
     ELSE [fullType |-> fullType,
           namespace |-> SubSeq(fullType, 1, slashIdx),
           action |-> SubSeq(fullType, slashIdx + 1, Len(fullType))]

\* ------------------------------------------------------------------ matches
\* A filter list is undefined (NoFilters) or a sequence of filters; a filter is
\* an exact string or a pattern /^prefix/ (the RegExp form the documentation
\* uses).
NoFilters == [defined |-> FALSE, list |-> <<>>]

Filters(list) == [defined |-> TRUE, list |-> list]

Exact(str) == [kind |-> "string", str |-> str]

Prefix(str) == [kind |-> "regexp", str |-> str]

FilterTest(filter, key) ==
  IF filter.kind = "string"
    THEN filter.str = key
    ELSE Len(key) >= Len(filter.str) /\ SubSeq(key, 1, Len(filter.str)) = filter.str

matches(filters, key) ==
  IF ~filters.defined \/ Len(filters.list) = 0
    THEN FALSE
    ELSE \E i \in 1..Len(filters.list) : FilterTest(filters.list[i], key)

\* ----------------------------------------------------------- extractPayload
extractPayload(typeArg, payload) ==
  IF payload.defined THEN payload
  ELSE IF typeArg.kind = "object"
    THEN (IF Len(typeArg.rest) > 0 THEN Obj(typeArg.rest) ELSE Undefined)
  ELSE Undefined

\* ---------------------------------------------- orderKeysDeep / stableStringify
\* Object.keys(value).sort() needs the order of the key strings.
KeyRank(key) == CASE key = "a" -> 1 [] key = "b" -> 2 [] OTHER -> 3

RECURSIVE InsertByKey(_, _)
InsertByKey(sorted, pair) ==
  IF sorted = <<>> THEN <<pair>>
  ELSE IF KeyRank(pair[1]) < KeyRank(Head(sorted)[1]) THEN <<pair>> \o sorted
  ELSE IF pair[1] = Head(sorted)[1] THEN <<pair>> \o Tail(sorted)
  ELSE <<Head(sorted)>> \o InsertByKey(Tail(sorted), pair)

RECURSIVE orderKeysDeep(_)
orderKeysDeep(pairs) ==
  IF pairs = <<>> THEN <<>>
  ELSE InsertByKey(orderKeysDeep(SubSeq(pairs, 1, Len(pairs) - 1)), pairs[Len(pairs)])

RECURSIVE Flatten(_)
Flatten(pairs) ==
  IF pairs = <<>> THEN <<>>
  ELSE <<Head(pairs)[1], ":", Head(pairs)[2]>> \o (IF Len(pairs) > 1 THEN <<",">> ELSE <<>>) \o Flatten(Tail(pairs))

stableStringify(value) ==
  IF ~value.defined THEN <<"undefined">>
  ELSE <<"{">> \o Flatten(orderKeysDeep(value.obj)) \o <<"}">>

\* ---------------------------------------------------- buildDeduplicationKey
buildDeduplicationKey(namespace, action, payload) ==
  LET base == (IF namespace # EmptyString THEN namespace ELSE <<"__root__", Slash>>) \o <<"|">> \o action
  IN base \o <<"|payload=">> \o stableStringify(payload)

\* --------------------------------------------------- reentrancy (per namespace)
namespaceEnter(depths, namespace) == MapSet(depths, namespace, GetOr(depths, namespace, 0) + 1)

\* mutant of namespaceExit: the entry is kept when the depth reaches zero
namespaceExit_KeepsEntry(depths, namespace) ==
  MapSet(depths, namespace, GetOr(depths, namespace, 1) - 1)

namespaceExit(depths, namespace) ==
  LET depth == GetOr(depths, namespace, 1) - 1
  IN IF depth <= 0 THEN MapDelete(depths, namespace) ELSE MapSet(depths, namespace, depth)

namespaceIsActive(depths, namespace) == GetOr(depths, namespace, 0) > 0

\* ------------------------------------------------- queued / running counters
increaseCount(counts, key) == MapSet(counts, key, GetOr(counts, key, 0) + 1)

decreaseCount(counts, key) ==
  LET count == GetOr(counts, key, 0) - 1
  IN IF count <= 0 THEN MapDelete(counts, key) ELSE MapSet(counts, key, count)

\* ----------------------------------------- instrumentation (batch / health)
\* DISPATCH_SEQUENCE, OPEN_OPERATIONS, TOTAL_OPERATIONS, ACTIVE_BATCH,
\* BATCH_START_TOTAL, BATCH_IDS, STARTED_IDS, DONE_IDS, ERROR_OCCURRED_IDS and
\* whether HEALTH_TIMER is set, as one record
HealthInit ==
  [sequence |-> 1, open |-> 0, total |-> 0, batch |-> 0, batchStartTotal |-> 0,
   batchIds |-> <<>>, started |-> {}, done |-> {}, errored |-> {}, timer |-> FALSE]

trackDispatchStart(h, dispatchId) ==
  LET cancelled == [h EXCEPT !.timer = FALSE]
      batched == IF cancelled.open = 0
                   THEN [cancelled EXCEPT !.batch = @ + 1,
                                          !.batchStartTotal = cancelled.total,
                                          !.batchIds = <<>>]
                   ELSE cancelled
  IN [batched EXCEPT !.open = @ + 1,
                     !.total = @ + 1,
                     !.batchIds = Append(@, dispatchId),
                     !.started = @ \cup {dispatchId}]

onQueued(h, dispatchId) == trackDispatchStart(h, dispatchId)

onReenterStart(h, dispatchId) == trackDispatchStart(h, dispatchId)

onFinish(h, dispatchId) ==
  LET counted == [h EXCEPT !.done = @ \cup {dispatchId},
                           !.open = IF @ > 0 THEN @ - 1 ELSE @]
  IN IF counted.open = 0 THEN [counted EXCEPT !.timer = TRUE] ELSE counted

\* ===================================================================== state
VARIABLES
  \* options of createVuexMutexPlugin, fixed at construction
  include, exclude, noDedupe, inFlightMode, quickRepeatMode,
  \* ENABLE_DEBUG, and the module-level instrumentation state
  debug, health,
  \* module-level maps
  activeDepthByNamespace, queuedCountByKey, runningCountByKey,
  \* maps of one plugin instance, indexed by the store it is installed on
  mutexByNamespace, inFlightByKey, lastDoneAtByKey,
  \* per store: how many wrappers store.dispatch consists of, and how often the
  \* plugin function has been invoked on the store
  dispatchLayers, installs,
  \* Date.now()
  now,
  \* every call of a wrapped dispatch so far, in call order, with the state of
  \* the promise it returned
  calls,
  \* the dispatches the application may issue from outside any action, and how
  \* long the clock is observed
  menu, horizon

config == <<include, exclude, noDedupe, inFlightMode, quickRepeatMode, debug, menu, horizon>>

vars == <<include, exclude, noDedupe, inFlightMode, quickRepeatMode, debug, health,
          activeDepthByNamespace, queuedCountByKey, runningCountByKey,
          mutexByNamespace, inFlightByKey, lastDoneAtByKey, dispatchLayers, installs,
          now, calls, menu, horizon>>

Stores == {1, 2}

DedupeModes == {"share", "drop", "warn", "block"}

\* dedupe?.thresholdMillis, in clock ticks
thresholdMillis == 1

\* The maps a synchronous segment reads and writes, as one value.
State ==
  [depth |-> activeDepthByNamespace, queued |-> queuedCountByKey, running |-> runningCountByKey,
   mutex |-> mutexByNamespace, inFlight |-> inFlightByKey, lastDone |-> lastDoneAtByKey,
   calls |-> calls, debug |-> debug, health |-> health]

Commit(s) ==
  /\ activeDepthByNamespace' = s.depth
  /\ queuedCountByKey' = s.queued
  /\ runningCountByKey' = s.running
  /\ mutexByNamespace' = s.mutex
  /\ inFlightByKey' = s.inFlight
  /\ lastDoneAtByKey' = s.lastDone
  /\ calls' = s.calls
  /\ health' = s.health

\* ------------------------------------------------------------ promise values
Pending == [kind |-> "pending", by |-> 0]

\* value or error produced by the action body of call `c`
Ok(c) == [kind |-> "ok", by |-> c]

Err(c) == [kind |-> "err", by |-> c]

\* Promise.resolve(undefined)
NoResult == [kind |-> "undefined", by |-> 0]

\* new Error('[vuex-mutex][<phase>] ... blocked duplicate'), thrown by call `c`
Blocked(c) == [kind |-> "blocked", by |-> c]

IsRejection(result) == result.kind \in {"err", "blocked"}

\* ============================================ the store's actions (environment)
\* The wrapped dispatch runs whatever actions the application registered.  The
\* actions of the model are those of the repository's tests: delayed leaf
\* actions in two modules and at the root and an action that dispatches another
\* action of its module and awaits it; beside them, an action that dispatches
\* itself again with the same arguments and awaits that call, and actions of
\* two modules that dispatch into each other's module and await that call.
TypeAX == <<"a", Slash, "x">>

TypeAY == <<"a", Slash, "y">>

TypeAOuter == <<"a", Slash, "outer">>

TypeASelf == <<"a", Slash, "self">>

TypeBX == <<"b", Slash, "x">>

TypeAToB == <<"a", Slash, "toB">>

TypeBToA == <<"b", Slash, "toA">>

TypeR1 == <<"r1">>

TypeR2 == <<"r2">>

Leaf == [kind |-> "leaf", type |-> OtherArg, payload |-> Undefined]

Nest(type, payload) == [kind |-> "nest", type |-> type, payload |-> payload]

\* What the body of the action does before its first suspension: nothing but
\* start a timer (makeDelayedAction), or dispatch a further action and await it.
ActionBody(type, payload) ==
  LET fullType == parseType(type).fullType
  IN CASE fullType = TypeAOuter -> Nest(StringArg(TypeAX), Undefined)
       [] fullType = TypeASelf -> Nest(type, payload)
       [] fullType = TypeAToB -> Nest(StringArg(TypeBToA), Undefined)
       [] fullType = TypeBToA -> Nest(StringArg(TypeAX), Undefined)
       [] OTHER -> Leaf

\* ====================================================== the wrapped dispatch
\* mutant of mutexKeyOf: one lock for every namespace
mutexKeyOf_Global(namespace) == ROOT_KEY

\* const key = namespace || '__root__'
mutexKeyOf(namespace) == IF namespace # EmptyString THEN namespace ELSE ROOT_KEY

\* The record of one call of the wrapped dispatch.  `pc` is where the call
\* stands: queued (submitted to the mutex, callback not begun), running (action
\* body begun, wrapper's finally not yet run), cleaned (finally run, lock not
\* yet released), settled (its promise settled), done (process.finally run, or
\* nothing left to run).  `handle` names the call whose promise the caller was
\* handed, `awaiting` the nested call the body awaits.  seenInFlight,
\* seenEntry and seenElapsed record what held when the call was made: the
\* calls of the same key queued or running, whether the in-flight map had an
\* entry for the key, and the time since the key's last completion (-1: none).
\* `layer` counts the wrappers the call still has to pass, this one included
\* (0: the store's original dispatch); a call with layer below the store's
\* dispatchLayers was made by the wrapper above it, as its originalDispatch.
\* `dispatchId` is the number the wrapper drew from DISPATCH_SEQUENCE (0: none).
NewCall(s, store, parent, type, payload, layer) ==
  LET parsed == parseType(type)
      key == buildDeduplicationKey(parsed.namespace, parsed.action, extractPayload(type, payload))
  IN [store |-> store, parent |-> parent, type |-> type, payload |-> payload, layer |-> layer,
      fullType |-> parsed.fullType,
      mutexKey |-> mutexKeyOf(parsed.namespace),
      key |-> key, dispatchId |-> 0,
      path |-> "passthrough", phase |-> "none", pc |-> "running", awaiting |-> 0,
      bodyResult |-> Pending, result |-> Pending, handle |-> Len(s.calls) + 1,
      seenInFlight |-> {e \in 1..Len(s.calls) :
                          /\ s.calls[e].store = store
                          /\ s.calls[e].key = key
                          /\ s.calls[e].path \in {"mutex", "reenter"}
                          /\ s.calls[e].pc \in {"queued", "running"}},
      seenEntry |-> Has(s.inFlight[store], key),
      seenElapsed |-> IF Has(s.lastDone[store], key) THEN now - s.lastDone[store][key] ELSE -1]

\* getMutexFor: in scope unless an include list is given and does not match,
\* or the exclude list matches
InScope(fullType) ==
  /\ ~(include.defined /\ ~matches(include, fullType))
  /\ ~(exclude.defined /\ matches(exclude, fullType))

\* getMutexFor: the mutex of the namespace, created on first use.  A mutex is
\* the queue of the calls submitted to runExclusive and not yet released: its
\* head holds the lock, the others wait in submission order.
getMutexFor(mutexes, mutexKey) ==
  IF Has(mutexes, mutexKey) THEN mutexes ELSE MapSet(mutexes, mutexKey, <<>>)

\* mutant of InFlightHit: a recent completion takes precedence over the
\* in-flight entry
InFlightHit_AfterQuickRepeat(s, store, key) ==
  /\ Has(s.inFlight[store], key)
  /\ ~(/\ Has(s.lastDone[store], key)
       /\ s.lastDone[store][key] # 0
       /\ now - s.lastDone[store][key] <= thresholdMillis)

\* Phase 1: an in-flight entry exists for the key
InFlightHit(s, store, key) == Has(s.inFlight[store], key)

\* Phase 2: if (last && Date.now() - last <= thresholdMillis)
QuickRepeatHit(s, store, key) ==
  /\ Has(s.lastDone[store], key)
  /\ s.lastDone[store][key] # 0
  /\ now - s.lastDone[store][key] <= thresholdMillis

\* mutant of InFlightReturns: `warn` leaves the call in the in-flight phase too
InFlightReturns_Warn(mode) == TRUE

\* switch (inFlightMode): share, drop and block leave dispatch; warn breaks
InFlightReturns(mode) == mode \in {"share", "drop", "block"}

\* switch (quickRepeatMode): share, drop and block leave dispatch; warn breaks
QuickRepeatReturns(mode) == mode \in {"share", "drop", "block"}

\* The call returns without executing: `path` is share, drop or block.
ShortCircuit(s, call, phase, mode) ==
  LET id == Len(s.calls) + 1
      existing == IF phase = "IN-FLIGHT" THEN s.inFlight[call.store][call.key] ELSE 0
      done == [call EXCEPT !.path = IF phase = "QUICK-REPEAT" /\ mode = "share" THEN "drop" ELSE mode,
                           !.phase = phase, !.pc = "done",
                           !.handle = IF phase = "IN-FLIGHT" /\ mode = "share" THEN existing ELSE @,
                           !.result = CASE mode = "block" -> Blocked(id)
                                        [] phase = "IN-FLIGHT" /\ mode = "share" -> Pending
                                        [] OTHER -> NoResult]
  IN [s EXCEPT !.calls = Append(@, done)]

RECURSIVE dispatch(_, _, _, _, _, _)
RECURSIVE run(_, _)

\* originalDispatch(type, payload).  For the innermost wrapper it is the
\* store's own dispatch: the action body of call `c` begins and runs up to its
\* first suspension; a body that dispatches does so synchronously, through
\* store.dispatch as it is then.  For a wrapper installed over another wrapper
\* it is that wrapper.
run(s, c) ==
  LET call == s.calls[c]
      body == ActionBody(call.type, call.payload)
      child == Len(s.calls) + 1
  IN IF call.layer > 1
       THEN [dispatch(s, call.store, c, call.type, call.payload, call.layer - 1)
               EXCEPT !.calls[c].awaiting = child]
     ELSE IF body.kind = "nest" /\ Len(s.calls) < MaxCalls
       THEN [dispatch(s, call.store, c, body.type, body.payload, dispatchLayers[call.store])
               EXCEPT !.calls[c].awaiting = child]
     ELSE s

\* Reentrancy path: no lock; the body starts inside the call, the promise is
\* registered afterwards.
Reenter(s, call) ==
  LET id == Len(s.calls) + 1
      s1 == [s EXCEPT !.running = increaseCount(@, call.key),
                      !.depth = namespaceEnter(@, call.mutexKey),
                      !.health = IF s.debug THEN onReenterStart(@, call.dispatchId) ELSE @,
                      !.calls = Append(@, [call EXCEPT !.path = "reenter", !.pc = "running"])]
      s2 == run(s1, id)
  IN [s2 EXCEPT !.inFlight[call.store] = MapSet(@, call.key, id)]

\* mutant of Enqueue: the newest task is served first
Enqueue_Lifo(s, call) ==
  LET id == Len(s.calls) + 1
  IN [s EXCEPT !.queued = increaseCount(@, call.key),
               !.mutex[call.store][call.mutexKey] = <<id>> \o @,
               !.inFlight[call.store] = MapSet(@, call.key, id),
               !.calls = Append(@, [call EXCEPT !.path = "mutex", !.pc = "queued"])]

\* mutant of Enqueue: in debug mode the task is put in front of the waiters
Enqueue_DebugJumps(s, call) ==
  LET id == Len(s.calls) + 1
  IN [s EXCEPT !.health = IF s.debug THEN onQueued(@, call.dispatchId) ELSE @,
               !.queued = increaseCount(@, call.key),
               !.mutex[call.store][call.mutexKey] =
                   IF s.debug /\ @ # <<>> THEN <<Head(@), id>> \o Tail(@) ELSE Append(@, id),
               !.inFlight[call.store] = MapSet(@, call.key, id),
               !.calls = Append(@, [call EXCEPT !.path = "mutex", !.pc = "queued"])]

\* Normal path: the task is submitted to the namespace mutex (it holds the lock
\* at once when the mutex is free, but its callback runs in a later microtask).
Enqueue(s, call) ==
  LET id == Len(s.calls) + 1
  IN [s EXCEPT !.health = IF s.debug THEN onQueued(@, call.dispatchId) ELSE @,
               !.queued = increaseCount(@, call.key),
               !.mutex[call.store][call.mutexKey] = Append(@, id),
               !.inFlight[call.store] = MapSet(@, call.key, id),
               !.calls = Append(@, [call EXCEPT !.path = "mutex", !.pc = "queued"])]

dispatch(s, store, parent, type, payload, layer) ==
  LET id == Len(s.calls) + 1
      passed == NewCall(s, store, parent, type, payload, layer)
      call == [passed EXCEPT !.dispatchId = s.health.sequence]
      fullType == call.fullType
      deduplicationKey == call.key
      s1 == [s EXCEPT !.mutex[store] = getMutexFor(@, call.mutexKey),
                      !.health.sequence = @ + 1]
      skipDedupe == matches(noDedupe, fullType)
      isReenter == namespaceIsActive(s.depth, call.mutexKey)
  IN IF layer = 0
       THEN run([s EXCEPT !.calls = Append(@, passed)], id)
     ELSE IF fullType = EmptyString
       THEN run([s EXCEPT !.calls = Append(@, passed)], id)
     ELSE IF ~InScope(fullType)
       THEN run([s EXCEPT !.calls = Append(@, passed)], id)
     ELSE IF ~skipDedupe /\ InFlightHit(s1, store, deduplicationKey) /\ InFlightReturns(inFlightMode)
       THEN ShortCircuit(s1, call, "IN-FLIGHT", inFlightMode)
     ELSE IF ~skipDedupe /\ QuickRepeatHit(s1, store, deduplicationKey) /\ QuickRepeatReturns(quickRepeatMode)
       THEN ShortCircuit(s1, call, "QUICK-REPEAT", quickRepeatMode)
     ELSE IF isReenter
       THEN Reenter(s1, call)
     ELSE Enqueue(s1, call)

\* ================================================================== actions
CallIds == 1..Len(calls)

\* what the caller of call `c` gets from the promise it was handed
Outcome(c) == calls[calls[c].handle].result

\* the promise handed to the caller of `c` has settled and the reactions
\* registered on it before the caller's own (process.finally) have run
Delivered(c) == calls[calls[c].handle].pc = "done"

\* The application dispatches from outside any action (an event handler, a
\* timer, a component hook).
DispatchTop(store, arg) ==
  /\ Len(calls) < MaxCalls
  /\ Commit(dispatch(State, store, 0, arg.type, arg.payload, dispatchLayers[store]))
  /\ UNCHANGED <<config, dispatchLayers, installs, now>>

\* runExclusive grants the lock to the head of the queue: the callback runs
\* its prologue and calls the action.
HoldsLock(c) == Head(mutexByNamespace[calls[c].store][calls[c].mutexKey]) = c

\* the callback given to runExclusive, up to the first suspension of the action
Started(s, c) ==
  LET call == s.calls[c]
      s1 == [s EXCEPT !.queued = decreaseCount(@, call.key),
                      !.running = increaseCount(@, call.key),
                      !.depth = namespaceEnter(@, call.mutexKey),
                      !.calls[c].pc = "running"]
  IN run(s1, c)

Start(c) ==
  /\ calls[c].pc = "queued"
  /\ HoldsLock(c)
  /\ Commit(Started(State, c))
  /\ UNCHANGED <<config, dispatchLayers, installs, now>>

\* what the action body of call `c` ends with, `own` being the outcome of its
\* own code: the outcome of the wrapper below it, the error of the nested
\* dispatch it awaited, or `own`
BodyResult(s, c, own) ==
  LET call == s.calls[c]
      child == call.awaiting
      outcome == s.calls[s.calls[child].handle].result
  IN IF child # 0 /\ (call.layer > 1 \/ IsRejection(outcome)) THEN outcome ELSE own

\* catch and finally around `await run()`, and for a call outside the plugin's
\* scope the settling of the action's own promise
Finished(s, c, own) ==
  LET call == s.calls[c]
      bodyResult == BodyResult(s, c, own)
      caught == IF IsRejection(bodyResult)
                  THEN [s.health EXCEPT !.errored = @ \cup {call.dispatchId}]
                  ELSE s.health
      s1 == [s EXCEPT !.running = decreaseCount(@, call.key),
                      !.depth = namespaceExit(@, call.mutexKey),
                      !.lastDone[call.store] = MapSet(@, call.key, now),
                      !.health = IF s.debug THEN onFinish(caught, call.dispatchId) ELSE caught,
                      !.calls[c].bodyResult = bodyResult]
  IN CASE call.path = "reenter" ->
            [s1 EXCEPT !.calls[c].pc = "settled", !.calls[c].result = bodyResult]
       [] call.path = "mutex" ->
            [s1 EXCEPT !.calls[c].pc = "cleaned"]
       [] OTHER ->
            [s EXCEPT !.calls[c].bodyResult = bodyResult,
                      !.calls[c].pc = "done", !.calls[c].result = bodyResult]

\* The action body finishes (a leaf body with a value or an error of its own,
\* a body awaiting a nested dispatch with that dispatch's error, if any) and
\* the wrapper's catch / finally around `await run()` runs.  On the reentrancy
\* path the async function ends there and its promise settles; on the mutex
\* path the promise settles when runExclusive has released the lock; a call
\* outside the scope of the plugin has no wrapper code and returns the
\* action's own promise.
Finish(c) ==
  /\ calls[c].pc = "running"
  /\ LET call == calls[c]
         child == call.awaiting
     IN \E own \in {Ok(c), Err(c)} :
          /\ child # 0 => /\ Delivered(child)
                          /\ own = Ok(c)
          /\ Commit(Finished(State, c, own))
  /\ UNCHANGED <<config, dispatchLayers, installs, now>>

\* mutant of Release: the lock is released after a success only
Release_OnSuccess(c) ==
  /\ calls[c].pc = "cleaned"
  /\ LET call == calls[c]
     IN Commit([State EXCEPT !.mutex[call.store][call.mutexKey] =
                                 IF IsRejection(call.bodyResult) THEN @ ELSE Tail(@),
                             !.calls[c].pc = "settled",
                             !.calls[c].result = call.bodyResult])
  /\ UNCHANGED <<config, dispatchLayers, installs, now>>

\* mutant of Release: the promise settles but the lock is not handed over
Release_KeepsLock(c) ==
  /\ calls[c].pc = "cleaned"
  /\ Commit([State EXCEPT !.calls[c].pc = "settled",
                          !.calls[c].result = calls[c].bodyResult])
  /\ UNCHANGED <<config, dispatchLayers, installs, now>>

\* runExclusive: finally release(); the lock passes to the next waiter and
\* the promise returned by runExclusive settles with the callback's outcome.
Released(s, c) ==
  LET call == s.calls[c]
  IN [s EXCEPT !.mutex[call.store][call.mutexKey] = Tail(@),
               !.calls[c].pc = "settled",
               !.calls[c].result = call.bodyResult]

Release(c) ==
  /\ calls[c].pc = "cleaned"
  /\ Commit(Released(State, c))
  /\ UNCHANGED <<config, dispatchLayers, installs, now>>

\* mutant of Finalize: the entry of the key is deleted whoever owns it
Finalize_Unguarded(c) ==
  /\ calls[c].pc = "settled"
  /\ LET call == calls[c]
     IN Commit([State EXCEPT !.inFlight[call.store] = MapDelete(@, call.key),
                             !.calls[c].pc = "done"])
  /\ UNCHANGED <<config, dispatchLayers, installs, now>>

\* mutant of Finalized: the entry is deleted by the call that set it first
\* only, not by the one that overwrote it
Finalized_FirstOwnerOnly(s, c) ==
  LET call == s.calls[c]
  IN [s EXCEPT !.inFlight[call.store] =
                   IF Has(@, call.key) /\ @[call.key] = c /\ ~call.seenEntry
                     THEN MapDelete(@, call.key) ELSE @,
               !.calls[c].pc = "done"]

\* process.finally(() => { if (inFlightByKey.get(key) === process) delete })
Finalized(s, c) ==
  LET call == s.calls[c]
  IN [s EXCEPT !.inFlight[call.store] =
                   IF Has(@, call.key) /\ @[call.key] = c THEN MapDelete(@, call.key) ELSE @,
               !.calls[c].pc = "done"]

Finalize(c) ==
  /\ calls[c].pc = "settled"
  /\ Commit(Finalized(State, c))
  /\ UNCHANGED <<config, dispatchLayers, installs, now>>

\* mutant of Install: the dispatch is wrapped again whatever it is
Install_Rewrap(store) ==
  /\ installs[store] < MaxInstalls
  /\ installs' = [installs EXCEPT ![store] = @ + 1]
  /\ dispatchLayers' = [dispatchLayers EXCEPT ![store] = @ + 1]
  /\ UNCHANGED <<config, health, activeDepthByNamespace, queuedCountByKey, runningCountByKey,
                 mutexByNamespace, inFlightByKey, lastDoneAtByKey, now, calls>>

\* The plugin function is invoked on the store (by createStore for each entry
\* of `plugins`, or by hand): it returns at once when store.dispatch carries
\* the WRAPPED mark, otherwise it replaces store.dispatch by the wrapper and
\* marks it.
Install(store) ==
  /\ installs[store] < MaxInstalls
  /\ installs' = [installs EXCEPT ![store] = @ + 1]
  /\ dispatchLayers' = IF dispatchLayers[store] > 0
                         THEN dispatchLayers
                         ELSE [dispatchLayers EXCEPT ![store] = 1]
  /\ UNCHANGED <<config, health, activeDepthByNamespace, queuedCountByKey, runningCountByKey,
                 mutexByNamespace, inFlightByKey, lastDoneAtByKey, now, calls>>

\* time passes
Tick ==
  /\ now < horizon
  /\ now' = now + 1
  /\ UNCHANGED <<config, health, activeDepthByNamespace, queuedCountByKey, runningCountByKey,
                 mutexByNamespace, inFlightByKey, lastDoneAtByKey, dispatchLayers, installs, calls>>

Next ==
  \/ \E arg \in menu : DispatchTop(arg.store, arg)
  \/ \E c \in CallIds : Start(c)
  \/ \E c \in CallIds : Finish(c)
  \/ \E c \in CallIds : Release(c)
  \/ \E c \in CallIds : Finalize(c)
  \/ Tick

\* the same steps, and installations of the plugin on the application's stores
NextInstall ==
  \/ Next
  \/ \E store \in {arg.store : arg \in menu} : Install(store)

\* The timer set by scheduleHealthReport fires: reportDispatchHealth reads the
\* id sets and logs.
HealthReport ==
  /\ health.timer
  /\ health' = [health EXCEPT !.timer = FALSE]
  /\ UNCHANGED <<config, activeDepthByNamespace, queuedCountByKey, runningCountByKey,
                 mutexByNamespace, inFlightByKey, lastDoneAtByKey, dispatchLayers, installs,
                 now, calls>>

\* the same steps, and the health timer
NextDebug ==
  \/ Next
  \/ HealthReport

\* ------------------------------------------------------------ initial states
Arg(store, type, payload) == [store |-> store, type |-> type, payload |-> payload]

PayloadAB == Obj(<< <<"a", "1">>, <<"b", "2">> >>)

PayloadBA == Obj(<< <<"b", "2">>, <<"a", "1">> >>)

\* state after construction: every map is empty, the clock reads 0 (the
\* tests' vi.setSystemTime(0))
InitState ==
  /\ activeDepthByNamespace = EmptyMap
  /\ queuedCountByKey = EmptyMap
  /\ runningCountByKey = EmptyMap
  /\ mutexByNamespace = [store \in Stores |-> EmptyMap]
  /\ inFlightByKey = [store \in Stores |-> EmptyMap]
  /\ lastDoneAtByKey = [store \in Stores |-> EmptyMap]
  /\ now = 0
  /\ calls = <<>>
  /\ health = HealthInit

\* createStore({plugins: [plugin]}): the plugin function has run once on every
\* store
Installed ==
  /\ dispatchLayers = [store \in Stores |-> 1]
  /\ installs = [store \in Stores |-> 1]

MenuCore == {Arg(1, StringArg(TypeAX), Undefined), Arg(1, StringArg(TypeAOuter), Undefined),
             Arg(1, StringArg(TypeASelf), Undefined), Arg(1, StringArg(TypeBX), PayloadAB)}

Init ==
  /\ InitState
  /\ Installed
  /\ include = NoFilters
  /\ exclude = NoFilters
  /\ noDedupe = NoFilters
  /\ debug = FALSE
  /\ inFlightMode \in DedupeModes
  /\ quickRepeatMode \in DedupeModes
  /\ menu = MenuCore
  /\ horizon = ShortTime

Spec == Init /\ [][Next]_vars

\* createVuexMutexPlugin({noDedupe: ['a/x'], dedupe: {...}}): a/x is exempt from
\* deduplication; a/outer dispatches a/x from its body.
MenuNoDedupe == {Arg(1, StringArg(TypeAX), Undefined), Arg(1, StringArg(TypeAOuter), Undefined)}

InitNoDedupe ==
  /\ InitState
  /\ Installed
  /\ include = NoFilters
  /\ exclude = NoFilters
  /\ noDedupe = Filters(<<Exact(TypeAX)>>)
  /\ debug = FALSE
  /\ inFlightMode \in DedupeModes
  /\ quickRepeatMode \in DedupeModes
  /\ menu = MenuNoDedupe
  /\ horizon = ShortTime

SpecNoDedupe == InitNoDedupe /\ [][Next]_vars

\* createVuexMutexPlugin({include: [/^a\//]}), ({exclude: ['b/x']}) and
\* ({include: [/^a\//], exclude: ['a/y']}): b/x, and in the last case a/y, are
\* outside the scope of the plugin.
ScopeOptions ==
  {[include |-> Filters(<<Prefix(<<"a", Slash>>)>>), exclude |-> NoFilters],
   [include |-> NoFilters, exclude |-> Filters(<<Exact(TypeBX)>>)],
   [include |-> Filters(<<Prefix(<<"a", Slash>>)>>), exclude |-> Filters(<<Exact(TypeAY)>>)]}

MenuScope == {Arg(1, StringArg(TypeAX), Undefined), Arg(1, StringArg(TypeAY), Undefined),
              Arg(1, StringArg(TypeBX), Undefined)}

InitScope ==
  /\ InitState
  /\ Installed
  /\ \E options \in ScopeOptions : include = options.include /\ exclude = options.exclude
  /\ noDedupe = NoFilters
  /\ debug = FALSE
  /\ inFlightMode \in DedupeModes
  /\ quickRepeatMode \in DedupeModes
  /\ menu = MenuScope
  /\ horizon = ShortTime

SpecScope == InitScope /\ [][Next]_vars

\* a store with two root actions and one module
MenuRoot == {Arg(1, StringArg(TypeR1), Undefined), Arg(1, StringArg(TypeR2), Undefined),
             Arg(1, StringArg(TypeAX), Undefined)}

InitRoot ==
  /\ InitState
  /\ Installed
  /\ include = NoFilters
  /\ exclude = NoFilters
  /\ noDedupe = NoFilters
  /\ debug = FALSE
  /\ inFlightMode \in {"warn", "drop"}
  /\ quickRepeatMode \in {"warn", "drop"}
  /\ menu = MenuRoot
  /\ horizon = ShortTime

SpecRoot == InitRoot /\ [][Next]_vars

\* A store whose dispatch is not wrapped yet; the plugin function is invoked on
\* it up to MaxInstalls times (plugins: [plugin, plugin]).
MenuInstall == {Arg(1, StringArg(TypeAX), Undefined), Arg(1, StringArg(TypeAOuter), Undefined)}

InitInstall ==
  /\ InitState
  /\ dispatchLayers = [store \in Stores |-> 0]
  /\ installs = [store \in Stores |-> 0]
  /\ include = NoFilters
  /\ exclude = NoFilters
  /\ noDedupe = NoFilters
  /\ debug = FALSE
  /\ inFlightMode \in {"warn", "drop"}
  /\ quickRepeatMode \in {"warn", "drop"}
  /\ menu = MenuInstall
  /\ horizon = ShortTime

SpecInstall == InitInstall /\ [][NextInstall]_vars

\* The event loop runs every job that is ready: the callback of a task that
\* has got the lock, the release at the end of runExclusive, the reactions of
\* a settled promise.  Whether an action body ever finishes is up to the
\* application, so Finish carries no fairness.
MenuFair == {Arg(1, StringArg(TypeAX), Undefined), Arg(1, StringArg(TypeAOuter), Undefined)}

InitFair ==
  /\ InitState
  /\ Installed
  /\ include = NoFilters
  /\ exclude = NoFilters
  /\ noDedupe = NoFilters
  /\ debug = FALSE
  /\ inFlightMode \in {"warn", "share"}
  /\ quickRepeatMode = "warn"
  /\ menu = MenuFair
  /\ horizon = ShortTime

\* Start(c) is enabled exactly when its guard holds (the new state is a
\* function of the current one), so weak fairness of Start(c) is written with
\* the guard in place of ENABLED.
StartEnabled(c) == c \in CallIds /\ calls[c].pc = "queued" /\ HoldsLock(c)

Fairness ==
  \A c \in 1..MaxCalls :
    /\ []<>(~StartEnabled(c)) \/ []<><<c \in CallIds /\ Start(c)>>_vars
    /\ WF_vars(c \in CallIds /\ Release(c))
    /\ WF_vars(c \in CallIds /\ Finalize(c))

SpecFair == InitFair /\ [][Next]_vars /\ Fairness

\* The clock runs past the quick-repeat window (thresholdMillis) of a
\* completion: repeats of one action at every distance from its completion.
MenuWindow == {Arg(1, StringArg(TypeAX), Undefined)}

InitWindow ==
  /\ InitState
  /\ Installed
  /\ include = NoFilters
  /\ exclude = NoFilters
  /\ noDedupe = NoFilters
  /\ debug = FALSE
  /\ inFlightMode \in {"warn", "drop"}
  /\ quickRepeatMode \in DedupeModes
  /\ menu = MenuWindow
  /\ horizon = LongTime

SpecWindow == InitWindow /\ [][Next]_vars

\* Two stores, each with a plugin instance of its own (two calls of
\* createVuexMutexPlugin), both with a module `a`.
MenuInstances == {Arg(1, StringArg(TypeAX), Undefined), Arg(2, StringArg(TypeAX), Undefined),
                  Arg(2, StringArg(TypeAOuter), Undefined)}

InitInstances ==
  /\ InitState
  /\ Installed
  /\ include = NoFilters
  /\ exclude = NoFilters
  /\ noDedupe = NoFilters
  /\ debug = FALSE
  /\ inFlightMode \in {"warn", "drop"}
  /\ quickRepeatMode \in {"warn", "drop"}
  /\ menu = MenuInstances
  /\ horizon = ShortTime

SpecInstances == InitInstances /\ [][Next]_vars

\* createVuexMutexPlugin({debug: true, ...}) beside the same plugin without
\* debug.
MenuDebug == {Arg(1, StringArg(TypeAX), Undefined), Arg(1, StringArg(TypeAOuter), Undefined),
              Arg(1, StringArg(TypeBX), Undefined)}

InitDebug ==
  /\ InitState
  /\ Installed
  /\ include = NoFilters
  /\ exclude = NoFilters
  /\ noDedupe = NoFilters
  /\ debug \in BOOLEAN
  /\ inFlightMode \in {"warn", "share"}
  /\ quickRepeatMode \in {"warn", "drop"}
  /\ menu = MenuDebug
  /\ horizon = ShortTime

SpecDebug == InitDebug /\ [][NextDebug]_vars

\* Dispatches whose action identifier cannot be parsed: a value that is neither
\* a string nor an object with a string `type` (a number, null), the empty
\* string, an object whose `type` is the empty string; beside them a/x.
MenuMalformed == {Arg(1, OtherArg, Undefined), Arg(1, OtherArg, PayloadAB),
                  Arg(1, StringArg(EmptyString), Undefined),
                  Arg(1, ObjectArg(EmptyString, << <<"a", "1">> >>), Undefined),
                  Arg(1, StringArg(TypeAX), Undefined)}

InitMalformed ==
  /\ InitState
  /\ Installed
  /\ include = NoFilters
  /\ exclude = NoFilters
  /\ noDedupe = NoFilters
  /\ debug = FALSE
  /\ inFlightMode \in {"drop", "block"}
  /\ quickRepeatMode \in {"drop", "block"}
  /\ menu = MenuMalformed
  /\ horizon = ShortTime

SpecMalformed == InitMalformed /\ [][Next]_vars

\* Progress of the whole engine: an action that dispatches itself, actions of
\* modules a and b that dispatch into each other, under every pair of dedupe
\* modes.  Beside the ready jobs of the event loop, every action body is taken
\* to finish once the dispatch it awaits has settled.
MenuProgress == {Arg(1, StringArg(TypeASelf), Undefined),
                 Arg(1, StringArg(TypeAToB), Undefined),
                 Arg(1, StringArg(TypeBToA), Undefined)}

InitProgress ==
  /\ InitState
  /\ Installed
  /\ include = NoFilters
  /\ exclude = NoFilters
  /\ noDedupe = NoFilters
  /\ debug = FALSE
  /\ inFlightMode \in DedupeModes
  /\ quickRepeatMode \in DedupeModes
  /\ menu = MenuProgress
  /\ horizon = ShortTime

\* Finish(c) is enabled exactly when the body runs and what it awaits, if
\* anything, has been delivered
FinishEnabled(c) ==
  /\ c \in CallIds
  /\ calls[c].pc = "running"
  /\ calls[c].awaiting # 0 => Delivered(calls[c].awaiting)

BodiesFinish ==
  \A c \in 1..MaxCalls :
    []<>(~FinishEnabled(c)) \/ []<><<c \in CallIds /\ Finish(c)>>_vars

SpecProgress == InitProgress /\ [][Next]_vars /\ Fairness /\ BodiesFinish

\* =================================================================== claims
\* the call was accepted for execution (it has, or will have, a body of its own
\* run by the plugin)
Accepted(c) == calls[c].path \in {"mutex", "reenter"}

\* the action body of the call is executing (begun, not yet finished)
Executing(c) == Accepted(c) /\ calls[c].pc = "running"

\* the namespace of the call's action key
NamespaceOf(c) == parseType(calls[c].type).namespace

SameNamespace(c, d) == calls[c].store = calls[d].store /\ NamespaceOf(c) = NamespaceOf(d)

\* `a` is on the call stack that dispatched `c`
RECURSIVE IsAncestor(_, _)
IsAncestor(a, c) ==
  /\ calls[c].parent # 0
  /\ (calls[c].parent = a \/ IsAncestor(a, calls[c].parent))

Related(c, d) == IsAncestor(c, d) \/ IsAncestor(d, c)

\* C1: two calls of the same namespace never execute their action bodies at the
\* same time, unless one was dispatched from inside the other's running body.
C1_MutualExclusion ==
  \A c, d \in CallIds :
    (c # d /\ SameNamespace(c, d) /\ Executing(c) /\ Executing(d)) => Related(c, d)

\* C2: of two calls of one namespace that both went through the mutex, the one
\* submitted first has settled before the body of the other begins.
C2_Fifo ==
  \A c, d \in CallIds :
    (/\ c < d
     /\ SameNamespace(c, d)
     /\ calls[c].path = "mutex"
     /\ calls[d].path = "mutex"
     /\ calls[d].pc # "queued") => calls[c].pc \in {"settled", "done"}

C2_Witness ==
  \E c, d \in CallIds :
    /\ c < d
    /\ SameNamespace(c, d)
    /\ calls[c].path = "mutex"
    /\ calls[d].path = "mutex"
    /\ calls[d].pc = "running"

\* a call of the same namespace that went through the mutex before `c` and has
\* not settled
HasPredecessor(c) ==
  \E e \in CallIds :
    /\ e < c
    /\ SameNamespace(e, c)
    /\ calls[e].path = "mutex"
    /\ calls[e].pc \notin {"settled", "done"}

\* C3: a queued call waits for calls of its own namespace only: when no earlier
\* call of its namespace is unsettled it holds the lock and can begin, whatever
\* is queued or running in other namespaces.
C3_NoCrossNamespaceWait ==
  \A c \in CallIds :
    (calls[c].pc = "queued" /\ ~HasPredecessor(c)) => HoldsLock(c)

\* one call of namespace a and one of namespace b execute at the same time
C3_Witness ==
  \E c, d \in CallIds :
    /\ NamespaceOf(c) # NamespaceOf(d)
    /\ calls[c].store = calls[d].store
    /\ calls[c].path = "mutex" /\ calls[d].path = "mutex"
    /\ Executing(c) /\ Executing(d)

\* the call was offered to the dedupe check: in scope, not in the noDedupe list
Deduped(c) ==
  /\ calls[c].fullType # EmptyString
  /\ InScope(calls[c].fullType)
  /\ ~matches(noDedupe, calls[c].fullType)

\* when the call was made, a call of the same dedupe key was queued or running
IsInFlightDuplicate(c) == Deduped(c) /\ calls[c].seenInFlight # {}

\* C4: under inFlightMode=share a call whose key equals that of a queued or
\* running call is handed that call's promise and is not executed.
C4_InFlightShare ==
  inFlightMode = "share" =>
    \A d \in CallIds :
      IsInFlightDuplicate(d) =>
        /\ calls[d].path = "share"
        /\ \A e \in calls[d].seenInFlight : calls[d].handle = calls[e].handle

\* C5: under inFlightMode=block a call whose key equals that of a queued or
\* running call is rejected at once with the blocked-duplicate error and is not
\* executed.
C5_InFlightBlock ==
  inFlightMode = "block" =>
    \A d \in CallIds :
      IsInFlightDuplicate(d) =>
        /\ calls[d].path = "block"
        /\ calls[d].phase = "IN-FLIGHT"
        /\ Outcome(d) = Blocked(d)

\* C6: under inFlightMode=drop a call whose key equals that of a queued or
\* running call resolves at once with no result and is not executed.
C6_InFlightDrop ==
  inFlightMode = "drop" =>
    \A d \in CallIds :
      IsInFlightDuplicate(d) =>
        /\ calls[d].path = "drop"
        /\ Outcome(d) = NoResult

\* C7 as stated: under inFlightMode=warn a call whose key equals that of a
\* queued or running call is executed and gets a promise of its own.
C7_InFlightWarnAlwaysRuns ==
  inFlightMode = "warn" =>
    \A d \in CallIds :
      IsInFlightDuplicate(d) => (Accepted(d) /\ calls[d].handle = d)

\* C7 as amended: under inFlightMode=warn such a call is never short-circuited
\* by the in-flight phase; it is executed with a promise of its own unless the
\* quick-repeat phase short-circuits it, which takes a quickRepeatMode other
\* than warn and a completion of the key within thresholdMillis.
C7_InFlightWarn ==
  inFlightMode = "warn" =>
    \A d \in CallIds :
      IsInFlightDuplicate(d) =>
        /\ calls[d].phase # "IN-FLIGHT"
        /\ calls[d].phase = "none" => (Accepted(d) /\ calls[d].handle = d)
        /\ calls[d].phase = "QUICK-REPEAT" =>
             (quickRepeatMode # "warn" /\ calls[d].seenElapsed \in 0..thresholdMillis)

\* a duplicate of a call in flight has been accepted, and both bodies have run
C7_Witness ==
  /\ inFlightMode = "warn"
  /\ \E d \in CallIds :
       /\ IsInFlightDuplicate(d)
       /\ calls[d].pc = "done"
       /\ calls[d].bodyResult.by = d
       /\ \E e \in calls[d].seenInFlight : calls[e].pc = "done" /\ calls[e].bodyResult.by = e

\* when the call was made no call of its key was in flight and a call of its
\* key had completed at most thresholdMillis ago
IsQuickRepeat(c) ==
  /\ Deduped(c)
  /\ calls[c].seenInFlight = {}
  /\ ~calls[c].seenEntry
  /\ calls[c].seenElapsed \in 0..thresholdMillis

\* C8: under quickRepeatMode drop or share a quick repeat resolves with no
\* result and is not executed.
C8_QuickRepeatDrop ==
  quickRepeatMode \in {"drop", "share"} =>
    \A d \in CallIds :
      IsQuickRepeat(d) => (calls[d].path = "drop" /\ Outcome(d) = NoResult)

\* C9: under quickRepeatMode=block a quick repeat is rejected with the
\* blocked-quick-repeat error and not executed, and an identical call made
\* later than thresholdMillis after the completion is executed.
C9_QuickRepeatBlock ==
  quickRepeatMode = "block" =>
    \A d \in CallIds :
      /\ IsQuickRepeat(d) =>
           (calls[d].path = "block" /\ calls[d].phase = "QUICK-REPEAT" /\ Outcome(d) = Blocked(d))
      /\ (Deduped(d) /\ ~calls[d].seenEntry /\ calls[d].seenElapsed > thresholdMillis) => Accepted(d)

\* the call `h` waits for the lock that `p` holds
WaitsForLockOf(h, p) ==
  /\ calls[h].pc = "queued"
  /\ calls[h].store = calls[p].store
  /\ calls[h].mutexKey = calls[p].mutexKey
  /\ calls[p].path = "mutex"
  /\ HoldsLock(p)
  /\ h # p

\* `d` was dispatched by the running body of a call of the same namespace
IsNested(d) == calls[d].parent # 0 /\ SameNamespace(d, calls[d].parent)

\* C10: a call dispatched by the running body of a call X of the same
\* namespace does not go through the mutex, executes inside X's execution, and
\* X is never left awaiting a promise that waits for the lock X holds.
C10_Reentrancy ==
  \A d \in CallIds :
    IsNested(d) =>
      /\ Accepted(d) => calls[d].path = "reenter"
      /\ Executing(d) => Executing(calls[d].parent)
      /\ ~WaitsForLockOf(calls[d].handle, calls[d].parent)

\* the call went through a wrapper that exempts its action key from
\* deduplication
SkipsDedupe(c) ==
  /\ calls[c].layer > 0
  /\ calls[c].fullType # EmptyString
  /\ InScope(calls[c].fullType)
  /\ matches(noDedupe, calls[c].fullType)

\* a call exempt from deduplication is executed with a promise of its own
C11_NeverShortCircuited ==
  \A c \in CallIds : SkipsDedupe(c) => (Accepted(c) /\ calls[c].handle = c)

\* a call exempt from deduplication does not execute at the same time as
\* another call of its namespace, unless one was dispatched by the other's body
C11_Serialized ==
  \A c, d \in CallIds :
    (c # d /\ SkipsDedupe(c) /\ SameNamespace(c, d) /\ Executing(c) /\ Executing(d)) => Related(c, d)

\* C11: a call whose action key matches the noDedupe filter is never shared,
\* dropped or blocked, whatever the modes and whatever is in flight or has just
\* finished, and is still serialized against the other calls of its namespace.
C11_SkipDedupe == C11_NeverShortCircuited /\ C11_Serialized

\* the call went through a wrapper whose include / exclude filters leave its
\* action key out
OutOfScope(c) ==
  /\ calls[c].layer > 0
  /\ calls[c].fullType # EmptyString
  /\ ~InScope(calls[c].fullType)

\* an out-of-scope call is handed to the underlying dispatch at once, with a
\* promise of its own
C12_StraightThrough ==
  \A c \in CallIds :
    OutOfScope(c) => (calls[c].path = "passthrough" /\ calls[c].handle = c /\ calls[c].pc # "queued")

\* a queued in-scope call with no unsettled in-scope call of its namespace
\* before it holds the lock, whatever out-of-scope calls are running
C12_NoDelay ==
  \A c \in CallIds :
    (calls[c].pc = "queued" /\ ~HasPredecessor(c)) => HoldsLock(c)

\* the mutex registry, the in-flight map, the last-completion map and the
\* depths hold nothing that stems from an out-of-scope call
C12_Frame ==
  /\ \A store \in Stores :
       /\ \A k \in DOMAIN mutexByNamespace[store] :
            \E c \in CallIds : ~OutOfScope(c) /\ calls[c].store = store /\ calls[c].mutexKey = k
       /\ \A k \in DOMAIN inFlightByKey[store] :
            \E c \in CallIds : ~OutOfScope(c) /\ calls[c].store = store /\ calls[c].key = k
       /\ \A k \in DOMAIN lastDoneAtByKey[store] :
            \E c \in CallIds : ~OutOfScope(c) /\ calls[c].store = store /\ calls[c].key = k
  /\ \A k \in DOMAIN activeDepthByNamespace :
       activeDepthByNamespace[k] =
         Cardinality({c \in CallIds : Accepted(c) /\ calls[c].pc = "running" /\ calls[c].mutexKey = k})

\* two in-scope calls of one namespace do not execute at the same time, unless
\* one was dispatched by the other's body
C12_Serialized ==
  \A c, d \in CallIds :
    (c # d /\ SameNamespace(c, d) /\ Executing(c) /\ Executing(d)) => Related(c, d)

\* C12: a call outside the include / exclude scope goes straight to the
\* underlying dispatch, is neither queued nor deduplicated, delays no in-scope
\* call and leaves the plugin's maps alone, while the in-scope calls of a
\* namespace are still serialized among themselves.
C12_ScopeFilters == C12_StraightThrough /\ C12_NoDelay /\ C12_Frame /\ C12_Serialized

\* the action of the executed call `c` has failed
ActionFailed(c) == Accepted(c) /\ IsRejection(calls[c].bodyResult)

\* the calls waiting for or holding the mutex of the namespace of `c`
QueueOf(c) ==
  LET queue == mutexByNamespace[calls[c].store][calls[c].mutexKey]
  IN {queue[i] : i \in 1..Len(queue)}

\* C13: when the action of an executed call fails, the call's promise is
\* rejected with that very error; by the time the caller can observe it the
\* depth of the namespace has been decremented, the completion time recorded
\* and the in-flight entry removed if the call still owned it; and the failed
\* call no longer holds the mutex.
C13_FailurePropagation ==
  \A c \in CallIds :
    ActionFailed(c) =>
      /\ calls[c].pc \in {"cleaned", "settled", "done"}
      /\ Has(lastDoneAtByKey[calls[c].store], calls[c].key)
      /\ GetOr(activeDepthByNamespace, calls[c].mutexKey, 0) =
           Cardinality({d \in CallIds : Accepted(d) /\ calls[d].pc = "running"
                                          /\ calls[d].mutexKey = calls[c].mutexKey})
      /\ calls[c].pc \in {"settled", "done"} =>
           (calls[c].result = calls[c].bodyResult /\ c \notin QueueOf(c))
      /\ calls[c].pc = "done" =>
           ~(Has(inFlightByKey[calls[c].store], calls[c].key)
             /\ inFlightByKey[calls[c].store][calls[c].key] = c)

\* a call on the mutex path has failed and its caller has seen the error, and
\* the next call of the namespace has got the lock and runs
C13_Witness ==
  \E c, d \in CallIds :
    /\ c < d
    /\ calls[c].path = "mutex" /\ calls[d].path = "mutex"
    /\ SameNamespace(c, d)
    /\ calls[c].bodyResult = Err(c)
    /\ calls[c].pc = "done" /\ calls[c].result = Err(c)
    /\ calls[d].pc = "running"

\* an in-scope call of an action whose key has no namespace part
IsRootCall(c) ==
  /\ calls[c].layer > 0
  /\ calls[c].fullType # EmptyString
  /\ InScope(calls[c].fullType)
  /\ NamespaceOf(c) = EmptyString

\* the root actions share one mutex, which no named namespace uses
C14_OneGroup ==
  \A c, d \in CallIds :
    /\ IsRootCall(c) => calls[c].mutexKey = ROOT_KEY
    /\ (IsRootCall(c) /\ ~IsRootCall(d)) => calls[d].mutexKey # calls[c].mutexKey

\* Of two calls of different root actions made from outside any action on one
\* store, the later one begins only when the earlier one has ended.  (A pair of
\* which the earlier went to the mutex and the later found the namespace
\* active was not dispatched together: the body of a third call began in
\* between.)
C14_Serialized ==
  \A c, d \in CallIds :
    (/\ c < d
     /\ IsRootCall(c) /\ IsRootCall(d)
     /\ calls[c].fullType # calls[d].fullType
     /\ calls[c].store = calls[d].store
     /\ calls[c].parent = 0 /\ calls[d].parent = 0
     /\ Accepted(c) /\ Accepted(d)
     /\ ~(calls[c].path = "mutex" /\ calls[d].path = "reenter")
     /\ calls[d].pc # "queued") => calls[c].pc # "running"

\* C14: the actions without a namespace part form one group, distinct from
\* every named namespace, and two root actions dispatched together are
\* strictly serialized.
C14_RootNamespace == C14_OneGroup /\ C14_Serialized

C16_NoStarvation ==
  \A c \in 1..MaxCalls :
    (c \in CallIds /\ calls[c].pc = "queued" /\ ~HasPredecessor(c))
      ~> (c \in CallIds /\ calls[c].pc # "queued")

\* a call that was submitted behind another call of its namespace has begun,
\* the other having settled
C16_Witness ==
  \E c, e \in CallIds :
    /\ e < c
    /\ SameNamespace(e, c)
    /\ calls[e].path = "mutex" /\ calls[c].path = "mutex"
    /\ calls[e].seenInFlight = {} /\ e \in calls[c].seenInFlight
    /\ calls[e].pc \in {"settled", "done"}
    /\ calls[c].pc # "queued"

\* `c` was dispatched from the call stack of an action of its namespace that
\* the plugin runs: a body dispatches while it is running, so such an ancestor
\* had entered the namespace and not exited when `c` was dispatched
DispatchedFromNamespace(c) ==
  \E a \in CallIds : IsAncestor(a, c) /\ SameNamespace(a, c) /\ Accepted(a)

\* C17: an accepted call takes the reentrancy path if and only if it was
\* dispatched from within the call stack of a running action of its namespace;
\* a call dispatched from outside any such action takes the mutex path, even
\* while another action of the namespace is running.
C17_ReentrantSelection ==
  \A c \in CallIds :
    Accepted(c) => (calls[c].path = "reenter" <=> DispatchedFromNamespace(c))

\* one half of C17: a call dispatched from the call stack of a running action
\* of its namespace never goes to the mutex
C17_NestedIsReentrant ==
  \A c \in CallIds :
    (Accepted(c) /\ DispatchedFromNamespace(c)) => calls[c].path = "reenter"

\* isLocked() of the mutex of a namespace on a store: a task holds the lock
\* (the head of the queue) from its runExclusive call to its release
IsLocked(store, mutexKey) == GetOr(mutexByNamespace[store], mutexKey, <<>>) # <<>>

\* C18, per call: while a body executes on the reentrancy path, an ancestor
\* call of its namespace holds the mutex of the namespace and is itself inside
\* its exclusive window.
C18_AncestorHoldsLock ==
  \A c \in CallIds :
    (Executing(c) /\ calls[c].path = "reenter")
      => \E a \in CallIds :
           /\ IsAncestor(a, c)
           /\ SameNamespace(a, c)
           /\ calls[a].path = "mutex"
           /\ calls[a].pc = "running"
           /\ HoldsLock(a)

\* C18, per namespace: a namespace with reentrancy depth > 0 has its mutex
\* locked (on the store a body of the namespace is executing on).
C18_DepthImpliesLocked ==
  \A ns \in DOMAIN activeDepthByNamespace :
    namespaceIsActive(activeDepthByNamespace, ns)
      => \A c \in CallIds :
           (Executing(c) /\ calls[c].mutexKey = ns) => IsLocked(calls[c].store, ns)

\* C18: the lock is held for the whole time a body executes on the reentrancy
\* path; equivalently depth > 0 implies locked.
C18_LockHeldOnReentrantPath == C18_AncestorHoldsLock /\ C18_DepthImpliesLocked

\* the call was accepted for execution and its promise has not settled
InFlight(c) == Accepted(c) /\ calls[c].pc \in {"queued", "running", "cleaned"}

\* C19: for every call accepted for execution (mutex or reentrancy path) that
\* has not settled, the in-flight map of its store holds an entry for the
\* call's dedupe key, in every mode.
C19_InFlightEntryPresent ==
  \A c \in CallIds :
    InFlight(c) => Has(inFlightByKey[calls[c].store], calls[c].key)

\* the reaction registered with process.finally runs for call `c` in this step
Finalizes(c) == calls[c].pc = "settled" /\ calls'[c].pc = "done"

\* a step keeps the in-flight entries it does not own: an entry disappears only
\* in the step in which the call that registered it runs its process.finally
\* (which happens once per call), and a call that finalizes while the entry of
\* its key belongs to another call leaves that entry as it is
OwnershipGuardedStep ==
  \A store \in Stores :
    \A key \in DOMAIN inFlightByKey[store] :
      LET owner == inFlightByKey[store][key]
      IN /\ ~Has(inFlightByKey'[store], key) => Finalizes(owner)
         /\ \A c \in CallIds :
              (c # owner /\ calls[c].store = store /\ calls[c].key = key /\ Finalizes(c))
                => /\ Has(inFlightByKey'[store], key)
                   /\ inFlightByKey'[store][key] = owner

\* C20: a settling call removes the in-flight entry of its key only if the
\* stored handle is its own, never the entry of a later identical call, and
\* at most once.
C20_OwnershipGuardedRelease == [][OwnershipGuardedStep]_vars

\* an accepted call has finalized while the entry of its key belongs to a
\* later identical call that is still in flight
C20_Witness ==
  \E c, d \in CallIds :
    /\ c < d
    /\ calls[c].store = calls[d].store /\ calls[c].key = calls[d].key
    /\ Accepted(c) /\ calls[c].pc = "done"
    /\ InFlight(d)
    /\ Has(inFlightByKey[calls[d].store], calls[d].key)
    /\ inFlightByKey[calls[d].store][calls[d].key] = d

\* C21: the handle of an accepted call is stored under its dedupe key before
\* any part of its action body executes: an identical call dispatched from
\* within that body (directly or further down the call stack) finds an
\* in-flight entry for the key.
C21_RegistrationBeforeExecution ==
  \A c, d \in CallIds :
    (/\ Accepted(c)
     /\ IsAncestor(c, d)
     /\ calls[d].layer > 0
     /\ calls[d].store = calls[c].store
     /\ calls[d].key = calls[c].key) => calls[d].seenEntry

\* the same for calls accepted on the mutex path only
C21_MutexPathRegistersFirst ==
  \A c, d \in CallIds :
    (/\ calls[c].path = "mutex"
     /\ IsAncestor(c, d)
     /\ calls[d].layer > 0
     /\ calls[d].store = calls[c].store
     /\ calls[d].key = calls[c].key) => calls[d].seenEntry

\* the call was short-circuited by the dedupe check, in either phase
ShortCircuited(c) == calls[c].path \in {"share", "drop", "block"}

\* a short-circuited call is on no mutex queue, owns no in-flight entry and
\* has nothing left to run
ShortCircuitInert ==
  \A d \in CallIds :
    ShortCircuited(d)
      => /\ calls[d].pc = "done"
         /\ calls[d].bodyResult = Pending
         /\ \A store \in Stores :
              /\ \A ns \in DOMAIN mutexByNamespace[store] :
                   \A i \in 1..Len(mutexByNamespace[store][ns]) : mutexByNamespace[store][ns][i] # d
              /\ \A key \in DOMAIN inFlightByKey[store] : inFlightByKey[store][key] # d

\* the step consists of one call of the wrapped dispatch, which returns
\* through the dedupe check
ShortCircuitStep(d) ==
  /\ Len(calls') = Len(calls) + 1
  /\ d = Len(calls')
  /\ calls'[d].path \in {"share", "drop", "block"}

\* A dispatch from outside any action that is short-circuited changes nothing
\* but the list of calls; one made by an action body that is just starting
\* under the lock changes nothing beyond what the start itself does.
ShortCircuitFrame ==
  \A d \in 1..MaxCalls :
    ShortCircuitStep(d)
      => /\ mutexByNamespace' = mutexByNamespace
         /\ inFlightByKey' = inFlightByKey
         /\ lastDoneAtByKey' = lastDoneAtByKey
         /\ calls'[d].parent = 0
              => /\ activeDepthByNamespace' = activeDepthByNamespace
                 /\ \A c \in CallIds : calls'[c] = calls[c]
         /\ calls'[d].parent # 0
              => LET p == calls'[d].parent
                 IN /\ activeDepthByNamespace' = namespaceEnter(activeDepthByNamespace, calls[p].mutexKey)
                    /\ \A c \in CallIds \ {p} : calls'[c] = calls[c]
                    /\ calls'[p] = [calls[p] EXCEPT !.pc = "running", !.awaiting = d]

\* the frame half of C22: a short-circuited call never queues on the namespace
\* mutex and leaves the in-flight map, the last-completion map, the reentrancy
\* depths and every other call as they were
C22_Frame == []ShortCircuitInert /\ [][ShortCircuitFrame]_vars

\* the dispatcher of a short-circuited call is not left awaiting a promise that
\* waits for the lock the dispatcher holds, which would hold up the queued call
\* behind that promise, and the dispatcher itself, for good
ShortCircuitNoDelay ==
  \A d \in CallIds :
    (ShortCircuited(d) /\ calls[d].parent # 0)
      => ~WaitsForLockOf(calls[d].handle, calls[d].parent)

\* C22: a call short-circuited by the dedupe check (share, drop or block, in
\* either phase) never acquires or queues on the namespace mutex, leaves the
\* in-flight map, the last-completion map and the reentrancy depths as they
\* were, and neither delays nor changes the result of a queued or running
\* call.
C22_ShortCircuitFrame == C22_Frame /\ []ShortCircuitNoDelay

\* the calls that have entered the execution of a namespace (namespaceEnter
\* run, on the mutex or the reentrancy path) and not exited it
EnteredCalls(ns) == {c \in CallIds : Executing(c) /\ calls[c].mutexKey = ns}

\* C23: the depth stored for a namespace equals the number of calls of that
\* namespace that have entered execution and not exited, whether their bodies
\* succeed or fail; it is never negative and the entry is absent exactly when
\* that number is zero.
C23_DepthInvariant ==
  /\ \A ns \in DOMAIN activeDepthByNamespace : activeDepthByNamespace[ns] > 0
  /\ \A ns \in (DOMAIN activeDepthByNamespace) \cup {calls[c].mutexKey : c \in CallIds} :
       GetOr(activeDepthByNamespace, ns, 0) = Cardinality(EnteredCalls(ns))

\* a call whose body failed has exited, and the depth of its namespace counts
\* the one call still executing there
C23_Witness ==
  \E c, d \in CallIds :
    /\ ActionFailed(c)
    /\ calls[c].pc # "running"
    /\ calls[d].mutexKey = calls[c].mutexKey
    /\ Executing(d)
    /\ activeDepthByNamespace[calls[d].mutexKey] = 1

\* the wrapper's finally around `await run()` runs for call `c` in this step
Exits(c) == Executing(c) /\ calls'[c].pc # "running"

\* the recording half of C24: when the body of an executed call has ended, by
\* success or by failure, the clock is stored as the last completion of its
\* key
RecordsCompletion ==
  \A c \in CallIds :
    Exits(c) => /\ Has(lastDoneAtByKey'[calls[c].store], calls[c].key)
                /\ lastDoneAtByKey'[calls[c].store][calls[c].key] = now
                /\ calls'[c].bodyResult \in {Ok(c), Err(c)} \cup {Err(e) : e \in CallIds} \cup {Blocked(e) : e \in CallIds}

C24_Recorded == [][RecordsCompletion]_vars

\* every executed call of the key of `d` made before `d` failed
AfterFailuresOnly(d) ==
  /\ \E c \in 1..(d - 1) : calls[c].store = calls[d].store /\ calls[c].key = calls[d].key /\ Accepted(c)
  /\ \A c \in 1..(d - 1) :
       (calls[c].store = calls[d].store /\ calls[c].key = calls[d].key /\ Accepted(c)) => ActionFailed(c)

\* an identical call issued within thresholdMillis after a failed call is a
\* quick repeat: dropped under drop and share, rejected under block
QuickRepeatAfterFailure ==
  \A d \in CallIds :
    (IsQuickRepeat(d) /\ AfterFailuresOnly(d) /\ quickRepeatMode # "warn")
      => /\ calls[d].phase = "QUICK-REPEAT"
         /\ quickRepeatMode \in {"drop", "share"} => (calls[d].path = "drop" /\ Outcome(d) = NoResult)
         /\ quickRepeatMode = "block" => (calls[d].path = "block" /\ Outcome(d) = Blocked(d))

\* C24: the last-completion time of a key is set whenever an executed call of
\* the key ends, failed or not, so an identical call issued within
\* thresholdMillis after a failed call is treated as a quick repeat.
C24_CompletionOnFailure == C24_Recorded /\ []QuickRepeatAfterFailure

\* the call reached the quick-repeat check: Phase 1 did not return
ReachedPhase2(d) == Deduped(d) /\ (~calls[d].seenEntry \/ ~InFlightReturns(inFlightMode))

\* C25: Phase 2 applies to a call exactly when a last-completion timestamp
\* exists for its key, whatever its value, and now - lastCompletion <=
\* thresholdMillis (boundary included).  Under a quick-repeat mode other than
\* warn, Phase 2 applying means the call returns from the quick-repeat check.
C25_QuickRepeatCondition ==
  quickRepeatMode # "warn" =>
    \A d \in CallIds :
      ReachedPhase2(d) =>
        (calls[d].phase = "QUICK-REPEAT" <=> calls[d].seenElapsed \in 0..thresholdMillis)

\* one direction of C25: Phase 2 applies only within the window of a recorded
\* completion
C25_OnlyWithinWindow ==
  \A d \in CallIds :
    calls[d].phase = "QUICK-REPEAT" => (ReachedPhase2(d) /\ calls[d].seenElapsed \in 0..thresholdMillis)

\* C26: when an in-flight entry exists for the key of a call and inFlightMode
\* is share, drop or block, Phase 1 alone decides the outcome, whatever
\* quickRepeatMode and the last-completion timestamp are; a call returns from
\* Phase 2 only when there was no in-flight entry or inFlightMode is warn.
C26_PhasePrecedence ==
  \A d \in CallIds :
    /\ (Deduped(d) /\ calls[d].seenEntry /\ InFlightReturns(inFlightMode))
         => /\ calls[d].phase = "IN-FLIGHT"
            /\ calls[d].path = inFlightMode
            /\ inFlightMode = "share" => calls[d].handle # d
            /\ inFlightMode = "drop" => Outcome(d) = NoResult
            /\ inFlightMode = "block" => Outcome(d) = Blocked(d)
    /\ calls[d].phase = "QUICK-REPEAT" => (~calls[d].seenEntry \/ inFlightMode = "warn")

\* the latest call found an in-flight entry and a completion of its key
\* within the window, recorded at a clock value other than 0, the two modes
\* differ, and it returned from Phase 1
C26_Witness ==
  /\ calls # <<>>
  /\ LET d == Len(calls)
     IN /\ calls[d].phase = "IN-FLIGHT"
        /\ calls[d].seenEntry
        /\ calls[d].seenElapsed \in 0..thresholdMillis
        /\ quickRepeatMode \notin {"warn", inFlightMode}
        /\ Has(lastDoneAtByKey[calls[d].store], calls[d].key)
        /\ lastDoneAtByKey[calls[d].store][calls[d].key] > 0
        /\ \A c \in 1..(d - 1) :
             (calls[c].store = calls[d].store /\ calls[c].key = calls[d].key)
               => calls[c].pc \in {"cleaned", "settled"}

\* a dispatch from outside any action takes the reentrancy path only if a
\* call of its namespace on its own store is executing at that moment, and
\* any dispatch that does has such a call on its own store
ReentryFromOwnInstance ==
  \A d \in 1..MaxCalls :
    (d > Len(calls) /\ d <= Len(calls') /\ calls'[d].path = "reenter")
      => \E c \in 1..(d - 1) :
           /\ calls'[c].store = calls'[d].store
           /\ calls'[c].mutexKey = calls'[d].mutexKey
           /\ calls'[c].path \in {"mutex", "reenter"}
           /\ calls'[c].pc = "running"

\* a call is short-circuited only on account of an executed call of its key
\* on its own store
DedupeFromOwnInstance ==
  \A d \in CallIds :
    ShortCircuited(d)
      => \E c \in 1..(d - 1) :
           calls[c].store = calls[d].store /\ calls[c].key = calls[d].key /\ Accepted(c)

\* a queued call waits for calls of its own store only
QueueOfOwnInstance ==
  \A c \in CallIds :
    (calls[c].pc = "queued" /\ ~HasPredecessor(c)) => HoldsLock(c)

\* C27: two plugin instances on two stores share no state: the dedupe outcome,
\* the choice between reentrancy and mutex path and the waiting in the queue
\* of a call on one store do not depend on the calls of the other store.
C27_InstanceIsolation ==
  /\ [][ReentryFromOwnInstance]_vars
  /\ [](DedupeFromOwnInstance /\ QueueOfOwnInstance)

\* the part of C27 about the maps created per instance
C27_PerInstanceMaps == [](DedupeFromOwnInstance /\ QueueOfOwnInstance)

\* what a caller and the action bodies can observe of a call: the dedupe
\* decision, the path, where the call stands, whose promise was handed out and
\* the results
Decision(call) ==
  [store |-> call.store, parent |-> call.parent, type |-> call.type, payload |-> call.payload,
   path |-> call.path, phase |-> call.phase, pc |-> call.pc, awaiting |-> call.awaiting,
   handle |-> call.handle, bodyResult |-> call.bodyResult, result |-> call.result]

\* the state the control flow lives in: depths, mutexes, in-flight and
\* last-completion maps, and the observable part of every call, in call order
Control(s) ==
  [depth |-> s.depth, mutex |-> s.mutex, inFlight |-> s.inFlight, lastDone |-> s.lastDone,
   calls |-> [c \in 1..Len(s.calls) |-> Decision(s.calls[c])]]

\* the same state with debug mode set to `flag` and the instrumentation
\* (health bookkeeping, queued and running counters) back at its initial value
Instrumented(s, flag) ==
  [s EXCEPT !.debug = flag, !.health = HealthInit, !.queued = EmptyMap, !.running = EmptyMap]

\* C28: instrumentation is a pure observer.  Every step of the wrapper (a
\* dispatch from outside, the start of a queued call with the dispatches of
\* its body, the end of a body, the release of the lock, process.finally)
\* leads from the current state to the same control state, whether debug mode
\* is on or off and whatever the counters and the health bookkeeping hold; so
\* the same sequence of dispatches gives the same decisions, paths, execution
\* order and results with debug on and with debug off.
C28_PureObserver ==
  \A flag \in BOOLEAN :
    /\ \A arg \in menu :
         Len(calls) < MaxCalls =>
           Control(dispatch(State, arg.store, 0, arg.type, arg.payload, dispatchLayers[arg.store]))
             = Control(dispatch(Instrumented(State, flag), arg.store, 0, arg.type, arg.payload,
                                dispatchLayers[arg.store]))
    /\ \A c \in CallIds :
         /\ StartEnabled(c) =>
              Control(Started(State, c)) = Control(Started(Instrumented(State, flag), c))
         /\ (calls[c].pc = "running" /\ (calls[c].awaiting # 0 => Delivered(calls[c].awaiting)))
              => \A own \in {Ok(c), Err(c)} :
                   Control(Finished(State, c, own)) = Control(Finished(Instrumented(State, flag), c, own))
         /\ calls[c].pc = "cleaned" =>
              Control(Released(State, c)) = Control(Released(Instrumented(State, flag), c))
         /\ calls[c].pc = "settled" =>
              Control(Finalized(State, c)) = Control(Finalized(Instrumented(State, flag), c))

\* debug mode is on, the instrumentation has counted a batch of at least two
\* dispatches to its end, one of them on the reentrancy path and one failed,
\* and the health timer is set
C28_Witness ==
  /\ debug
  /\ health.timer
  /\ health.open = 0
  /\ Cardinality(health.done) >= 2
  /\ health.errored # {}
  /\ \E c \in CallIds : calls[c].path = "reenter" /\ calls[c].dispatchId \in health.done

\* the action identifier of the call is neither a non-empty string nor an
\* object with a non-empty string `type`
Malformed(c) ==
  ~(calls[c].type.kind \in {"string", "object"} /\ calls[c].type.type # EmptyString)

\* a malformed call is handed to the underlying dispatch as it is: no number
\* drawn, no dedupe decision, no queue, the promise of the underlying dispatch
\* returned
MalformedPassesThrough ==
  \A c \in CallIds :
    Malformed(c)
      => /\ calls[c].path = "passthrough"
         /\ calls[c].phase = "none"
         /\ calls[c].dispatchId = 0
         /\ calls[c].handle = c
         /\ calls[c].pc \in {"running", "done"}
         /\ calls[c].pc = "done" => calls[c].result = calls[c].bodyResult

\* the step dispatches a malformed call from outside any action, or ends one
MalformedStep ==
  \/ /\ Len(calls') = Len(calls) + 1
     /\ ~(calls'[Len(calls')].type.kind \in {"string", "object"}
           /\ calls'[Len(calls')].type.type # EmptyString)
  \/ \E c \in CallIds : Malformed(c) /\ calls'[c] # calls[c]

\* such a step leaves every map of the plugin, the instrumentation and every
\* other call as they were, and the arguments reach the underlying dispatch
\* unchanged
MalformedFrame ==
  MalformedStep
    => /\ UNCHANGED <<mutexByNamespace, inFlightByKey, lastDoneAtByKey, activeDepthByNamespace,
                      queuedCountByKey, runningCountByKey, health>>
       /\ \A c \in CallIds : (~Malformed(c) => calls'[c] = calls[c])
       /\ \A arg \in menu :
            Len(calls') = Len(calls) + 1
              => (dispatch(State, arg.store, 0, arg.type, arg.payload, dispatchLayers[arg.store]).calls = calls'
                    => /\ calls'[Len(calls')].type = arg.type
                       /\ calls'[Len(calls')].payload = arg.payload)

\* C29: a call whose action identifier cannot be parsed is forwarded to the
\* underlying dispatch with its arguments unchanged and leaves every map of
\* the plugin unchanged; it is neither serialized nor deduplicated.
C29_MalformedPassthrough == []MalformedPassesThrough /\ [][MalformedFrame]_vars

\* under inFlightMode=block two calls with the same malformed identifier and
\* payload are in the underlying dispatch at the same time, while a/x is
\* queued or running
C29_Witness ==
  /\ inFlightMode = "block"
  /\ \E c, d, e \in CallIds :
       /\ c < d
       /\ Malformed(c) /\ Malformed(d)
       /\ calls[c].type = calls[d].type /\ calls[c].payload = calls[d].payload
       /\ calls[c].pc = "running" /\ calls[d].pc = "running"
       /\ InFlight(e)

\* the promise of call `c` has settled
Settled(c) == calls[c].pc \in {"settled", "done"}

\* C30: under every combination of in-flight and quick-repeat modes every call
\* accepted for execution eventually settles, provided each action body
\* finishes once the dispatches it awaits have settled.
C30_GlobalProgress ==
  \A c \in 1..MaxCalls :
    (c \in CallIds /\ Accepted(c)) ~> (c \in CallIds /\ Settled(c))

\* the same, for every in-flight mode but share
C30_ProgressUnlessShared ==
  \A c \in 1..MaxCalls :
    (c \in CallIds /\ Accepted(c) /\ inFlightMode # "share") ~> (c \in CallIds /\ Settled(c))

\* a running action awaits the promise of a call that cannot settle before the
\* action itself does: its own, or that of a call queued behind it
AwaitsItself ==
  \E c \in CallIds :
    /\ calls[c].pc = "running"
    /\ calls[c].awaiting # 0
    /\ LET h == calls[calls[c].awaiting].handle
       IN h = c \/ WaitsForLockOf(h, c)

\* no action awaits its own settlement unless calls are shared
C30_CycleOnlyWhenShared == AwaitsItself => inFlightMode = "share"

\* two calls of one store with the same dedupe key, both offered to the dedupe
\* check, are accepted for execution and unsettled at the same time
DoubleFlight(c, d) ==
  /\ c < d
  /\ calls[c].store = calls[d].store
  /\ calls[c].key = calls[d].key
  /\ Deduped(c) /\ Deduped(d)
  /\ InFlight(c) /\ InFlight(d)

\* C31: with inFlightMode in {share, drop, block} and the action not in the
\* skip-dedupe filter, at most one call per dedupe key is accepted for
\* execution and not yet settled, whatever the interleaving of top-level and
\* nested dispatches.
C31_SingleFlightPerKey ==
  inFlightMode \in {"share", "drop", "block"}
    => \A c, d \in CallIds : ~DoubleFlight(c, d)

\* the same for calls that took the mutex path when no call of their key was
\* registered: the later of two such calls was made after the earlier settled
C31_SingleFlightOnMutexPath ==
  inFlightMode \in {"share", "drop", "block"}
    => \A c, d \in CallIds :
         DoubleFlight(c, d) => (calls[c].path = "reenter" /\ calls[d].parent # 0)

\* every call dispatched so far has settled and the reactions to its
\* settlement have run
Quiescent == calls # <<>> /\ \A c \in CallIds : calls[c].pc = "done"

\* no entry in the in-flight maps, the depth map and the counters; no mutex
\* held or waited for
Clean ==
  /\ \A store \in Stores : DOMAIN inFlightByKey[store] = {}
  /\ DOMAIN activeDepthByNamespace = {}
  /\ DOMAIN queuedCountByKey = {}
  /\ DOMAIN runningCountByKey = {}
  /\ \A store \in Stores : \A ns \in DOMAIN mutexByNamespace[store] :
       mutexByNamespace[store][ns] = <<>>

\* C32: in every reachable state in which all dispatched calls have settled,
\* the in-flight map is empty, the reentrancy depth map is empty, the queued
\* and running counters are empty and every namespace mutex is unlocked, for
\* every mode including warn.
C32_CleanQuiescence == Quiescent => Clean

\* under warn all calls have settled, among them two of one key of which the
\* later was accepted while the earlier was in flight and registered, so that
\* it overwrote the earlier one's entry
C32_Witness ==
  /\ Quiescent
  /\ inFlightMode = "warn"
  /\ \E c, d \in CallIds :
       /\ c < d
       /\ calls[c].store = calls[d].store /\ calls[c].key = calls[d].key
       /\ Accepted(c) /\ Accepted(d)
       /\ c \in calls[d].seenInFlight /\ calls[d].seenEntry

====
